---- MODULE Spec2Model ----
(***************************************************************************)
(* A model of the wasmrun development server:                              *)
(*   - src/src/server.rs: the single-instance guard built on the PID file  *)
(*     (is_server_running, stop_existing_server), the port probe and the   *)
(*     start-up sequence of run_server;                                    *)
(*   - src/src/server.rs: the handle_request of run_server's own loop;     *)
(*   - src/src/server/handler.rs: the request handlers handle_request and  *)
(*     handle_webapp_request, serve_file and serve_asset.                  *)
(*                                                                         *)
(* Two specifications share the variables:                                 *)
(*   Spec        start-ups of run_server interleaved with the operating    *)
(*               system (signals taking effect, processes exiting);        *)
(*   RouterSpec  requests handled by one serving loop, interleaved with    *)
(*               the rebuild notifier that sets the reload flag.           *)
(***************************************************************************)
EXTENDS Integers, Sequences, FiniteSets, TLC

\* ------------------------------------------------------------------ bounds

\* Number of run_server invocations (each is one OS process; its pid is its index).
NProc == 2
\* Number of TCP ports a start-up can ask for.
NPort == 2

Procs == 1..NProc
Ports == 1..NPort

\* The PID file is absent.
NoPid == 0
\* A port nobody listens on / a port held by a listener that is no server instance.
Free == 0
Ext == -1

VARIABLES
    \* ---- server.rs: operating-system state
    pidFile,    \* content of PID_FILE: NoPid when the file does not exist, else a pid
    proc,       \* process table: pid -> "free" | "server" | "server_dying" | "other" | "other_dying"
    portOwner,  \* port -> Free | Ext | pid of the process listening on it
    \* ---- server.rs: one run_server invocation per pid
    pc,         \* position of the invocation in run_server
    port,       \* the port argument of the invocation
    gotPid,     \* the pid stop_existing_server parsed from the file (its kill target)
    result,     \* what run_server returned: "none" while running, else the error
    \* ---- history of the invocation (what the claims speak about)
    liveAtStart, \* the live pid the record named at run_server's first check, or NoPid
    killFailed,  \* the kill command's failure stop_existing_server returned: "no" (none),
                 \* "not_permitted" (the target exists) or "no_such_process"
    probeBusy,   \* the port was bound by another listener when is_port_available probed it
    wrotePid,    \* the invocation has written the PID file
    \* ---- handler.rs: the serving session and the file system it reads
    files,             \* the regular files that exist (absolute paths)
    variant,           \* "plain": handle_request serves; "webapp": handle_webapp_request;
                       \* "basic": the handle_request of server.rs serves
    js_filename,       \* Option<&str>: NoJs for None
    watch_mode,        \* the watch_mode argument of handle_request
    clients_to_reload, \* Vec<String> of client addresses
    reload_flag,       \* Arc<AtomicBool> set by the rebuild notifier
    \* ---- handler.rs: the request loop
    hpc,               \* "idle", or "poll_store" between a poll's load and its store
    lastReq,           \* the request being handled or handled last
    lastResp,          \* the response sent to lastReq
    \* ---- history of the requests
    flagAtStart,       \* reload_flag when the handling of lastReq began
    rebuilt,           \* the notifier has set the flag since lastReq was handled
    pollBefore,        \* the request before lastReq was a reload poll (OwnPoll) and
                       \* no rebuild came between the two
    notified,          \* the number of rebuild notifications so far
    signalled,         \* the number of polls answered with reload-needed so far
    burst,             \* the number of notifications since the last poll was accepted
    sendErr            \* request.respond returned Err for lastResp (the client is gone)

guardVars == <<pidFile, proc, portOwner, pc, port, gotPid, result,
               liveAtStart, killFailed, probeBusy, wrotePid>>

routerVars == <<files, variant, js_filename, watch_mode, clients_to_reload,
                reload_flag, hpc, lastReq, lastResp,
                flagAtStart, rebuilt, pollBefore, notified, signalled, burst,
                sendErr>>

vars == <<guardVars, routerVars>>

\* ------------------------------------------------------------ server.rs

\* is_server_running: the file exists, parses, and `ps -p pid` lists a process.
\* ps lists every process that still exists, whatever it is and also when a
\* SIGKILL is pending for it.
is_server_running == pidFile # NoPid /\ proc[pidFile] # "free"

\* A probe that reports every port as available.
is_port_available_Always(p) == TRUE

\* is_port_available: TcpListener::bind succeeds iff nobody listens on the port
\* (the probing listener is dropped at once).
is_port_available(p) == portOwner[p] = Free

\* The ports process p listens on are released when it ceases to exist.
Released(p) == [q \in Ports |-> IF portOwner[q] = p THEN Free ELSE portOwner[q]]

\* run_server returning Err(e): main reports it and the process exits.
ReturnErr(p, e) ==
    /\ pc' = [pc EXCEPT ![p] = "failed"]
    /\ result' = [result EXCEPT ![p] = e]
    /\ proc' = [proc EXCEPT ![p] = "free"]
    /\ portOwner' = Released(p)

Running(p, at) == pc[p] = at /\ proc[p] = "server"

\* A user launches the server: a new process enters run_server.
Start(p) ==
    /\ pc[p] = "idle" /\ proc[p] = "free"
    /\ \E q \in Ports : port' = [port EXCEPT ![p] = q]
    /\ pc' = [pc EXCEPT ![p] = "check"]
    /\ proc' = [proc EXCEPT ![p] = "server"]
    /\ UNCHANGED <<pidFile, portOwner, gotPid, result,
                   liveAtStart, killFailed, probeBusy, wrotePid>>
    /\ UNCHANGED routerVars

\* run_server, line 82: if is_server_running() { stop_existing_server() }.
\* When the check is false the guard is skipped altogether.
Check(p) ==
    /\ Running(p, "check")
    /\ pc' = [pc EXCEPT ![p] = IF is_server_running THEN "stop" ELSE "probe"]
    /\ liveAtStart' = [liveAtStart EXCEPT ![p] =
                          IF is_server_running THEN pidFile ELSE NoPid]
    /\ UNCHANGED <<pidFile, proc, portOwner, port, gotPid, result,
                   killFailed, probeBusy, wrotePid>>
    /\ UNCHANGED routerVars

\* stop_existing_server, lines 36-47: the second liveness check; a record that
\* is stale by now is removed and the guard succeeds.
StopCheck(p) ==
    /\ Running(p, "stop")
    /\ IF ~is_server_running
          THEN /\ pidFile' = NoPid
               /\ pc' = [pc EXCEPT ![p] = "probe"]
          ELSE /\ pidFile' = pidFile
               /\ pc' = [pc EXCEPT ![p] = "stop_read"]
    /\ UNCHANGED <<proc, portOwner, port, gotPid, result,
                   liveAtStart, killFailed, probeBusy, wrotePid>>
    /\ UNCHANGED routerVars

\* stop_existing_server, lines 49-55: read and parse the record. A record that
\* vanished meanwhile is an Err, which run_server only reports (line 85).
StopRead(p) ==
    /\ Running(p, "stop_read")
    /\ IF pidFile = NoPid
          THEN /\ pc' = [pc EXCEPT ![p] = "probe"]
               /\ gotPid' = gotPid
          ELSE /\ pc' = [pc EXCEPT ![p] = "kill"]
               /\ gotPid' = [gotPid EXCEPT ![p] = pidFile]
    /\ UNCHANGED <<pidFile, proc, portOwner, port, result,
                   liveAtStart, killFailed, probeBusy, wrotePid>>
    /\ UNCHANGED routerVars

\* The process table after `kill -9 t` succeeded: the signal is pending for t.
\* Command::output waits for the kill command, not for t to die.
Signalled(t) ==
    [proc EXCEPT ![t] = IF proc[t] \in {"server", "server_dying"}
                           THEN "server_dying" ELSE "other_dying"]

\* run_server, lines 83-86, on the kill command's failure: the Err is printed as
\* a warning and start-up goes on to the port probe.
AfterKillFailure(p) ==
    /\ pc' = [pc EXCEPT ![p] = "probe"]
    /\ killFailed' = [killFailed EXCEPT ![p] =
                         IF proc[gotPid[p]] = "free" THEN "no_such_process"
                                                     ELSE "not_permitted"]

\* stop_existing_server, lines 57-71: kill -9 <pid>. The command fails when no
\* such process exists, and may fail (not permitted) when one does.
Kill(p) ==
    /\ Running(p, "kill")
    /\ \E ok \in BOOLEAN :
          IF ok /\ proc[gotPid[p]] # "free"
             THEN /\ proc' = Signalled(gotPid[p])
                  /\ pc' = [pc EXCEPT ![p] = "rm_pid"]
                  /\ killFailed' = killFailed
             ELSE /\ proc' = proc
                  /\ AfterKillFailure(p)
    /\ UNCHANGED <<pidFile, portOwner, port, gotPid, result,
                   liveAtStart, probeBusy, wrotePid>>
    /\ UNCHANGED routerVars

\* The record is kept after a successful kill.
RmPid_KeepsRecord(p) ==
    /\ Running(p, "rm_pid")
    /\ pidFile' = pidFile
    /\ pc' = [pc EXCEPT ![p] = "probe"]
    /\ UNCHANGED <<proc, portOwner, port, gotPid, result,
                   liveAtStart, killFailed, probeBusy, wrotePid>>
    /\ UNCHANGED routerVars

\* stop_existing_server, line 64: remove the record after a successful kill
\* (a failure to remove is an Err that run_server only reports).
RmPid(p) ==
    /\ Running(p, "rm_pid")
    /\ pidFile' = NoPid
    /\ pc' = [pc EXCEPT ![p] = "probe"]
    /\ UNCHANGED <<proc, portOwner, port, gotPid, result,
                   liveAtStart, killFailed, probeBusy, wrotePid>>
    /\ UNCHANGED routerVars

\* run_server, lines 90-95: the port probe.
Probe(p) ==
    /\ Running(p, "probe")
    /\ probeBusy' = [probeBusy EXCEPT ![p] = portOwner[port[p]] # Free]
    /\ IF is_port_available(port[p])
          THEN /\ pc' = [pc EXCEPT ![p] = "artifact"]
               /\ UNCHANGED <<result, proc, portOwner>>
          ELSE ReturnErr(p, "port_in_use")
    /\ UNCHANGED <<pidFile, port, gotPid, liveAtStart, killFailed, wrotePid>>
    /\ UNCHANGED routerVars

\* run_server, lines 98-100: the WASM file must exist.
Artifact(p) ==
    /\ Running(p, "artifact")
    /\ \E exists \in BOOLEAN :
          IF exists
             THEN /\ pc' = [pc EXCEPT ![p] = "write_pid"]
                  /\ UNCHANGED <<result, proc, portOwner>>
             ELSE ReturnErr(p, "wasm_not_found")
    /\ UNCHANGED <<pidFile, port, gotPid, liveAtStart, killFailed, probeBusy, wrotePid>>
    /\ UNCHANGED routerVars

\* run_server, lines 163-165: fs::write(PID_FILE, pid), before the listener exists.
WritePid(p) ==
    /\ Running(p, "write_pid")
    /\ pidFile' = p
    /\ wrotePid' = [wrotePid EXCEPT ![p] = TRUE]
    /\ pc' = [pc EXCEPT ![p] = "bind"]
    /\ UNCHANGED <<proc, portOwner, port, gotPid, result,
                   liveAtStart, killFailed, probeBusy>>
    /\ UNCHANGED routerVars

\* run_server, lines 168-174: Server::http binds the listener and the request
\* loop starts; a bind failure is returned (the record written stays).
Bind(p) ==
    /\ Running(p, "bind")
    /\ IF portOwner[port[p]] = Free
          THEN /\ portOwner' = [portOwner EXCEPT ![port[p]] = p]
               /\ pc' = [pc EXCEPT ![p] = "listening"]
               /\ UNCHANGED <<result, proc>>
          ELSE ReturnErr(p, "bind_failed")
    /\ UNCHANGED <<pidFile, port, gotPid, liveAtStart, killFailed, probeBusy, wrotePid>>
    /\ UNCHANGED routerVars

\* ---- the operating system

\* A pending SIGKILL takes effect: the process ceases to exist.
Die(t) ==
    /\ proc[t] \in {"server_dying", "other_dying"}
    /\ proc' = [proc EXCEPT ![t] = "free"]
    /\ portOwner' = Released(t)
    /\ pc' = [pc EXCEPT ![t] = IF proc[t] = "server_dying" THEN "killed" ELSE pc[t]]
    /\ UNCHANGED <<pidFile, port, gotPid, result,
                   liveAtStart, killFailed, probeBusy, wrotePid>>
    /\ UNCHANGED routerVars

\* The operator stops a listening server (Ctrl+C): run_server has no shutdown
\* path, the record stays behind.
CtrlC(p) ==
    /\ Running(p, "listening")
    /\ proc' = [proc EXCEPT ![p] = "free"]
    /\ portOwner' = Released(p)
    /\ pc' = [pc EXCEPT ![p] = "killed"]
    /\ UNCHANGED <<pidFile, port, gotPid, result,
                   liveAtStart, killFailed, probeBusy, wrotePid>>
    /\ UNCHANGED routerVars

\* The pid of a server that is gone is given to an unrelated process.
PidReuse(t) ==
    /\ pc[t] \in {"failed", "killed"} /\ proc[t] = "free"
    /\ proc' = [proc EXCEPT ![t] = "other"]
    /\ UNCHANGED <<pidFile, portOwner, pc, port, gotPid, result,
                   liveAtStart, killFailed, probeBusy, wrotePid>>
    /\ UNCHANGED routerVars

GuardInit ==
    /\ pidFile = NoPid
    /\ proc = [p \in Procs |-> "free"]
    /\ portOwner \in [Ports -> {Free, Ext}]
    /\ pc = [p \in Procs |-> "idle"]
    /\ port = [p \in Procs |-> 1]
    /\ gotPid = [p \in Procs |-> NoPid]
    /\ result = [p \in Procs |-> "none"]
    /\ liveAtStart = [p \in Procs |-> NoPid]
    /\ killFailed = [p \in Procs |-> "no"]
    /\ probeBusy = [p \in Procs |-> FALSE]
    /\ wrotePid = [p \in Procs |-> FALSE]

Next ==
    \E p \in Procs :
        \/ Start(p)
        \/ Check(p)
        \/ StopCheck(p)
        \/ StopRead(p)
        \/ Kill(p)
        \/ RmPid(p)
        \/ Probe(p)
        \/ Artifact(p)
        \/ WritePid(p)
        \/ Bind(p)
        \/ Die(p)
        \/ CtrlC(p)
        \/ PidReuse(p)

\* No run_server invocation has been launched.
GuardIdle == GuardInit /\ \A q \in Ports : portOwner[q] = Free

\* ----------------------------------------------------------- handler.rs

\* ---- strings. A string is the sequence of its lexemes ("/", "..", a word, an
\* extension such as ".js", the marker "_bg"); two strings are equal iff their
\* sequences are, and prefixes and suffixes on lexeme boundaries are those of
\* the sequences.

\* str::starts_with
StartsWith(s, pre) == Len(s) >= Len(pre) /\ SubSeq(s, 1, Len(pre)) = pre

\* str::ends_with
EndsWith(s, suf) ==
    Len(s) >= Len(suf) /\ SubSeq(s, Len(s) - Len(suf) + 1, Len(s)) = suf

\* str::trim_start_matches(c)
RECURSIVE TrimStartMatches(_, _)
TrimStartMatches(s, c) ==
    IF s # <<>> /\ Head(s) = c THEN TrimStartMatches(Tail(s), c) ELSE s

\* str::strip_prefix(pre).unwrap_or("")
StripPrefix(s, pre) ==
    IF StartsWith(s, pre) THEN SubSeq(s, Len(pre) + 1, Len(s)) ELSE <<>>

\* str::split(c): the pieces between the separators (one piece for "").
RECURSIVE Split(_, _)
Split(s, c) ==
    IF s = <<>> THEN << <<>> >>
    ELSE LET rest == Split(Tail(s), c)
         IN  IF Head(s) = c THEN << <<>> >> \o rest
             ELSE << <<Head(s)>> \o Head(rest) >> \o Tail(rest)

Last(q) == q[Len(q)]

Slash == "/"
Root == <<"/">>
ReloadUrl == <<"/", "reload">>
ReloadCheckUrl == <<"/", "reload", "-check">>
AssetsPrefix == <<"/", "assets", "/">>
BgWasmSuffix == <<"_bg", ".wasm">>

\* ---- the file system. A path is a sequence of components (each a string);
\* an absolute path starts at the file system's root.
Cwd == << <<"proj">> >>
OutDir == << <<"proj">>, <<"out">> >>
AssetsDir == << <<"proj">>, <<"assets">> >>
NoPath == << <<"?">> >>

Parent(path) == SubSeq(path, 1, Len(path) - 1)

\* The directories: the root, the project, its output directory, and ./assets
\* when it holds a file.
Dirs == {<<>>, Cwd, OutDir} \cup {d \in {AssetsDir} : \E f \in files : Parent(f) = d}

\* The operating system's resolution of the components `comps` from directory
\* `at`: "" and "." stay, ".." goes to the parent, a name descends.
RECURSIVE Walk(_, _)
Walk(at, comps) ==
    IF comps = <<>> THEN at
    ELSE IF at \notin Dirs THEN NoPath
    ELSE LET c == Head(comps)
         IN  IF c = <<>> \/ c = <<".">> THEN Walk(at, Tail(comps))
             ELSE IF c = <<"..">>
                     THEN Walk(IF at = <<>> THEN at ELSE Parent(at), Tail(comps))
                     ELSE Walk(Append(at, c), Tail(comps))

\* A path of the program (relative to its working directory), resolved.
Resolve(path) == Walk(Cwd, path)

\* Path::exists() && Path::is_file()
IsFile(path) == Resolve(path) \in files

\* fs::read_dir(dir): the paths (dir joined with the name) of the entries of dir.
ReadDir(dir) ==
    {Append(dir, Last(f)) :
        f \in {g \in files \cup Dirs : g # <<>> /\ Parent(g) = Resolve(dir)}}

\* Path::join of a directory and a relative path string.
Join(dir, rel) == dir \o Split(rel, Slash)

\* ---- responses
Response(st, ct, kind, text, file) ==
    [status |-> st, ctype |-> ct, kind |-> kind, text |-> text, file |-> file,
     reload |-> FALSE]

\* The handler returned without responding to the request.
NoResponse == Response(0, "", "none", "", NoPath)
EntryPage == Response(200, "text/html", "html", "", NoPath)
PlainText(t) == Response(200, "text/plain", "text", t, NoPath)
NotFound == Response(404, "text/plain", "text", "404 Not Found", NoPath)

\* serve_file: the file's bytes with the given content type, or 500.
serve_file(path, content_type) ==
    IF Resolve(path) \in files
       THEN Response(200, content_type, "file", "", Resolve(path))
       ELSE Response(500, "text/plain", "text", "Error", NoPath)

\* A failed read is answered like serve_file answers it, with 500.
serve_asset_Status500(url) ==
    LET asset_filename == StripPrefix(url, AssetsPrefix)
        asset_path == << <<".">>, <<"assets">> >> \o Split(asset_filename, Slash)
    IN  IF Resolve(asset_path) \in files
           THEN Response(200, "application/octet-stream", "file", "", Resolve(asset_path))
           ELSE Response(500, "text/plain", "text", "Error", NoPath)

\* serve_asset: ./assets/<name> with a content type from the url's ending, or 404.
serve_asset(url) ==
    LET asset_filename == StripPrefix(url, AssetsPrefix)
        asset_path == << <<".">>, <<"assets">> >> \o Split(asset_filename, Slash)
        content_type ==
            IF EndsWith(url, <<".png">>) THEN "image/png"
            ELSE IF EndsWith(url, <<".jpg">>) \/ EndsWith(url, <<".jpeg">>) THEN "image/jpeg"
            ELSE IF EndsWith(url, <<".svg">>) THEN "image/svg+xml"
            ELSE IF EndsWith(url, <<".gif">>) THEN "image/gif"
            ELSE IF EndsWith(url, <<".css">>) THEN "text/css"
            ELSE IF EndsWith(url, <<".js">>) THEN "application/javascript"
            ELSE "application/octet-stream"
    IN  IF Resolve(asset_path) \in files
           THEN Response(200, content_type, "file", "", Resolve(asset_path))
           ELSE Response(404, "text/plain", "text", "Asset not found", NoPath)

\* utils::determine_content_type: the MIME type of a path's extension.
determine_content_type(path) ==
    LET name == Last(path)
    IN  IF EndsWith(name, <<".wasm">>) THEN "application/wasm"
        ELSE IF EndsWith(name, <<".js">>) THEN "application/javascript"
        ELSE IF EndsWith(name, <<".css">>) THEN "text/css"
        ELSE IF EndsWith(name, <<".html">>) THEN "text/html"
        ELSE IF EndsWith(name, <<".json">>) THEN "application/json"
        ELSE IF EndsWith(name, <<".png">>) THEN "image/png"
        ELSE "application/octet-stream"

Contains(q, x) == \E i \in 1..Len(q) : q[i] = x

\* The client is pushed although the list holds it.
push_if_absent_NoCheck(clients, client_addr) == Append(clients, client_addr)

\* if !clients_to_reload.contains(&client_addr) { clients_to_reload.push(client_addr) }
push_if_absent(clients, client_addr) ==
    IF ~Contains(clients, client_addr) THEN Append(clients, client_addr) ELSE clients

\* ---- the serving session
NoJs == <<>>
wasm_filename == <<"app", ".wasm">>
wasm_path == << <<"out">>, wasm_filename >>
js_file_name == <<"main", ".js">>
output_dir == << <<"out">> >>

\* request.remote_addr(): Some(addr) or None, as the string of client_addr.
NoAddr == 0
ClientAddr(a) == IF a = NoAddr THEN <<"unknown", 0>> ELSE <<"addr", a>>

Exts == <<".js", ".css", ".json", ".wasm">>
ExtContentType(ext) ==
    CASE ext = ".js" -> "application/javascript"
      [] ext = ".css" -> "text/css"
      [] ext = ".json" -> "application/json"
      [] ext = ".wasm" -> "application/wasm"
      [] OTHER -> "application/octet-stream"

Outcome(resp, clients) == [resp |-> resp, clients |-> clients]

\* handle_request, lines 73-134: the output directory, then the *_bg.wasm scan,
\* then the scan by file name, then 404. read_dir yields the entries in an
\* order the code does not choose: each match can be the first.
OutputDirLookup(url) ==
    LET base_dir == Parent(wasm_path)
        requested_file == Join(base_dir, TrimStartMatches(url, Slash))
        bg == IF EndsWith(url, BgWasmSuffix)
                 THEN {e \in ReadDir(base_dir) :
                          EndsWith(Last(e), BgWasmSuffix) /\ IsFile(e)}
                 ELSE {}
        filename == Last(Split(url, Slash))
        named == {e \in ReadDir(base_dir) : Last(e) = filename}
        hits == {i \in 1..Len(Exts) : EndsWith(url, <<Exts[i]>>) /\ named # {}}
        first == CHOOSE i \in hits : \A j \in hits : i <= j
    IN  IF IsFile(requested_file)
           THEN {serve_file(requested_file, determine_content_type(requested_file))}
        ELSE IF bg # {}
           THEN {serve_file(e, "application/wasm") : e \in bg}
        ELSE IF hits # {}
           THEN {serve_file(e, ExtContentType(Exts[first])) : e \in named}
        ELSE {NotFound}

\* The client is recorded on `/` whatever the watch mode.
handle_request_RecordsAlways(url, client_addr, js, watch, clients) ==
    IF url = Root
       THEN {Outcome(EntryPage,
                     push_if_absent(clients, client_addr))}
    ELSE IF url = <<Slash>> \o wasm_filename
       THEN {Outcome(serve_file(wasm_path, "application/wasm"), clients)}
    ELSE IF js # NoJs
       THEN IF url = <<Slash>> \o js
               THEN {Outcome(serve_file(Append(Parent(wasm_path), js),
                                        "application/javascript"), clients)}
               ELSE {Outcome(NoResponse, clients)}
    ELSE IF url = ReloadUrl
       THEN IF watch
               THEN {Outcome(PlainText("no-reload"), clients)}
               ELSE {Outcome(PlainText("not-watching"), clients)}
    ELSE IF StartsWith(url, AssetsPrefix)
       THEN {Outcome(serve_asset(url), clients)}
    ELSE {Outcome(r, clients) : r \in OutputDirLookup(url)}

\* handle_request (handler.rs, lines 11-135): the outcomes of one request.
handle_request(url, client_addr, js, watch, clients) ==
    IF url = Root
       THEN {Outcome(EntryPage,
                     IF watch THEN push_if_absent(clients, client_addr) ELSE clients)}
    ELSE IF url = <<Slash>> \o wasm_filename
       THEN {Outcome(serve_file(wasm_path, "application/wasm"), clients)}
    ELSE IF js # NoJs
       THEN IF url = <<Slash>> \o js
               THEN {Outcome(serve_file(Append(Parent(wasm_path), js),
                                        "application/javascript"), clients)}
               ELSE {Outcome(NoResponse, clients)}
    ELSE IF url = ReloadUrl
       THEN IF watch
               THEN {Outcome(PlainText("no-reload"), clients)}
               ELSE {Outcome(PlainText("not-watching"), clients)}
    ELSE IF StartsWith(url, AssetsPrefix)
       THEN {Outcome(serve_asset(url), clients)}
    ELSE {Outcome(r, clients) : r \in OutputDirLookup(url)}

\* handle_webapp_request (handler.rs, lines 138-210) on every path but
\* /reload-check, whose load and store of the flag are steps of their own.
handle_webapp_request(url, client_addr, clients) ==
    IF url = Root
       THEN Outcome(EntryPage, push_if_absent(clients, client_addr))
    ELSE IF StartsWith(url, AssetsPrefix)
       THEN Outcome(serve_asset(url), clients)
    ELSE LET file_path == Join(output_dir, TrimStartMatches(url, Slash))
         IN  IF IsFile(file_path)
                THEN Outcome(serve_file(file_path, determine_content_type(file_path)),
                             clients)
                ELSE Outcome(EntryPage, clients)

\* handle_request of server.rs (lines 179-276): the entry page, the artifact,
\* an asset read in place, and 404 for every other path.
run_server_handle_request(url) ==
    IF url = Root
       THEN EntryPage
    ELSE IF url = <<Slash>> \o wasm_filename
       THEN IF Resolve(wasm_path) \in files
               THEN Response(200, "application/wasm", "file", "", Resolve(wasm_path))
               ELSE Response(500, "text/plain", "text", "Error", NoPath)
    ELSE IF StartsWith(url, AssetsPrefix)
       THEN LET asset_filename == StripPrefix(url, AssetsPrefix)
                asset_path == << <<".">>, <<"assets">> >> \o Split(asset_filename, Slash)
                content_type ==
                    IF EndsWith(url, <<".png">>) THEN "image/png"
                    ELSE IF EndsWith(url, <<".jpg">>) \/ EndsWith(url, <<".jpeg">>)
                       THEN "image/jpeg"
                    ELSE IF EndsWith(url, <<".svg">>) THEN "image/svg+xml"
                    ELSE IF EndsWith(url, <<".gif">>) THEN "image/gif"
                    ELSE IF EndsWith(url, <<".css">>) THEN "text/css"
                    ELSE IF EndsWith(url, <<".js">>) THEN "application/javascript"
                    ELSE "application/octet-stream"
            IN  IF Resolve(asset_path) \in files
                   THEN Response(200, content_type, "file", "", Resolve(asset_path))
                   ELSE Response(404, "text/plain", "text", "Asset not found", NoPath)
    ELSE NotFound

\* The /reload-check response: empty body, Cache-Control, and X-Reload-Needed
\* when the flag was read true.
PollResponse(needed) ==
    [Response(200, "", "empty", "", NoPath) EXCEPT !.reload = needed]

\* ---- the requests of the model
NClient == 1
Addrs == 0..NClient

Urls == {
    Root,
    <<"/", "app", ".wasm">>,
    <<"/", "main", ".js">>,
    ReloadUrl,
    ReloadCheckUrl,
    <<"/", "assets", "/", "logo", ".png">>,
    <<"/", "assets", "/", "none", ".png">>,
    <<"/", "assets", "/", "..", "/", "out", "/", "app", ".wasm">>,
    <<"/", "x", "_bg", ".wasm">>,
    <<"/", "pkg", "_bg", ".wasm">>,
    <<"/", "missing", ".txt">>,
    <<"/", "pkg", "/", "main", ".js">>,
    <<"/", "..", "/", "secret", ".txt">>
}

\* The paths on which the model follows a client that has closed its
\* connection before the response is written: those whose handling writes the
\* reload state, and a file.
GoneUrls == {Root, ReloadUrl, ReloadCheckUrl, <<Slash>> \o wasm_filename}

\* The requests: every path from a peer without an address, `/`, the one path
\* on which the handlers use the address, from every client, and the requests
\* of a client that is gone when the response is written.
Requests ==
    {[url |-> url, a |-> NoAddr, gone |-> FALSE] : url \in Urls}
        \cup {[url |-> Root, a |-> a, gone |-> FALSE] : a \in Addrs}
        \cup {[url |-> url, a |-> NoAddr, gone |-> TRUE] : url \in GoneUrls}

NoReq == [url |-> <<>>, client |-> ClientAddr(NoAddr), gone |-> FALSE]
IsPoll(req) == req.url \in {ReloadUrl, ReloadCheckUrl}

\* The path the serving handler answers polls on (with no glue script
\* configured).
PollPath(url) ==
    \/ variant = "plain" /\ js_filename = NoJs /\ url = ReloadUrl
    \/ variant = "webapp" /\ url = ReloadCheckUrl

\* The last request was a poll on that path.
OwnPoll == PollPath(lastReq.url)

\* The notifications the model follows in one session.
MaxNotify == 3

\* The loop takes the next request: what the history records at that point.
Accept(url, a, gone) ==
    /\ hpc = "idle"
    /\ lastReq' = [url |-> url, client |-> ClientAddr(a), gone |-> gone]
    /\ flagAtStart' = reload_flag
    /\ pollBefore' = (OwnPoll /\ ~rebuilt)
    /\ rebuilt' = FALSE
    /\ burst' = IF PollPath(url) THEN 0 ELSE burst
    /\ UNCHANGED <<notified, signalled>>

\* request.respond(response): the response is written to the client's
\* connection; an Err (the client is gone) is printed and nothing else is done.
\* A handler that ends without calling respond has no send to fail.
Respond(resp, gone) ==
    /\ lastResp' = resp
    /\ sendErr' = (gone /\ resp # NoResponse)

\* A failed file read ends the loop (the read is unwrapped).
HandleRequest_StopsOn500(url, a, gone) ==
    /\ variant = "plain"
    /\ Accept(url, a, gone)
    /\ \E o \in handle_request(url, ClientAddr(a), js_filename, watch_mode,
                               clients_to_reload) :
          /\ Respond(o.resp, gone)
          /\ clients_to_reload' = o.clients
          /\ hpc' = IF o.resp.status = 500 THEN "stopped" ELSE hpc
    /\ UNCHANGED <<files, variant, js_filename, watch_mode, reload_flag>>
    /\ UNCHANGED guardVars

\* One request handled by handle_request.
HandleRequest(url, a, gone) ==
    /\ variant = "plain"
    /\ Accept(url, a, gone)
    /\ \E o \in handle_request(url, ClientAddr(a), js_filename, watch_mode,
                               clients_to_reload) :
          /\ Respond(o.resp, gone)
          /\ clients_to_reload' = o.clients
    /\ UNCHANGED <<files, variant, js_filename, watch_mode, reload_flag, hpc>>
    /\ UNCHANGED guardVars

\* One request handled by the handle_request of server.rs (run_server's loop).
ServeRequest(url, a, gone) ==
    /\ variant = "basic"
    /\ Accept(url, a, gone)
    /\ Respond(run_server_handle_request(url), gone)
    /\ UNCHANGED <<files, variant, js_filename, watch_mode, clients_to_reload,
                   reload_flag, hpc>>
    /\ UNCHANGED guardVars

\* One request, not a reload check, handled by handle_webapp_request.
HandleWebappRequest(url, a, gone) ==
    /\ variant = "webapp"
    /\ url # ReloadCheckUrl
    /\ Accept(url, a, gone)
    /\ LET o == handle_webapp_request(url, ClientAddr(a), clients_to_reload)
       IN  /\ Respond(o.resp, gone)
           /\ clients_to_reload' = o.clients
    /\ UNCHANGED <<files, variant, js_filename, watch_mode, reload_flag, hpc>>
    /\ UNCHANGED guardVars

\* handle_webapp_request, line 176: reload_flag.load. A flag read false is
\* answered at once; a flag read true is reset by the next step.
PollLoad(a, gone) ==
    /\ variant = "webapp"
    /\ Accept(ReloadCheckUrl, a, gone)
    /\ IF reload_flag
          THEN /\ hpc' = "poll_store"
               /\ Respond(NoResponse, gone)
          ELSE /\ hpc' = "idle"
               /\ Respond(PollResponse(FALSE), gone)
    /\ UNCHANGED <<files, variant, js_filename, watch_mode, reload_flag,
                   clients_to_reload>>
    /\ UNCHANGED guardVars

\* handle_webapp_request, lines 177-190: the header, reload_flag.store(false),
\* and the response.
PollStore ==
    /\ hpc = "poll_store"
    /\ reload_flag' = FALSE
    /\ Respond(PollResponse(TRUE), lastReq.gone)
    /\ hpc' = "idle"
    /\ signalled' = signalled + 1
    /\ UNCHANGED <<files, variant, js_filename, watch_mode, clients_to_reload,
                   lastReq, flagAtStart, rebuilt, pollBefore, notified, burst>>
    /\ UNCHANGED guardVars

\* The rebuild notifier (another thread) sets the flag.
Rebuild ==
    /\ variant = "webapp" \/ watch_mode
    /\ notified < MaxNotify
    /\ reload_flag' = TRUE
    /\ rebuilt' = TRUE
    /\ notified' = notified + 1
    /\ burst' = burst + 1
    /\ UNCHANGED <<files, variant, js_filename, watch_mode, clients_to_reload,
                   hpc, lastReq, lastResp, flagAtStart, pollBefore, signalled,
                   sendErr>>
    /\ UNCHANGED guardVars

\* The files the output directory may hold, and the files that are always there.
OutFiles == {Append(OutDir, n) : n \in {wasm_filename,
                                         <<"pkg", "_bg", ".wasm">>,
                                         <<"lib", "_bg", ".wasm">>}}
FixedFiles == {Append(OutDir, js_file_name),
               Append(Cwd, <<"secret", ".txt">>),
               Append(AssetsDir, <<"logo", ".png">>)}

\* The project without ./assets, and with a regular file named assets.
NoAssetsDir == (FixedFiles \ {Append(AssetsDir, <<"logo", ".png">>)}) \cup OutFiles
AssetsIsFile == NoAssetsDir \cup {AssetsDir}

RouterStart ==
    /\ clients_to_reload = <<>>
    /\ reload_flag = FALSE
    /\ hpc = "idle"
    /\ lastReq = NoReq
    /\ lastResp = NoResponse
    /\ flagAtStart = FALSE
    /\ rebuilt = FALSE
    /\ pollBefore = FALSE
    /\ notified = 0
    /\ signalled = 0
    /\ burst = 0
    /\ sendErr = FALSE

\* A session: handle_webapp_request has no watch_mode argument and no glue
\* script; it records clients and answers polls unconditionally. The
\* handle_request of server.rs has neither a glue script nor a watch mode.
RouterInit ==
    /\ files \in {FixedFiles \cup fs : fs \in SUBSET OutFiles}
                    \cup {NoAssetsDir, AssetsIsFile}
    /\ variant \in {"plain", "webapp", "basic"}
    /\ js_filename \in {NoJs, js_file_name}
    /\ watch_mode \in BOOLEAN
    /\ variant = "webapp" => (watch_mode /\ js_filename = NoJs)
    /\ variant = "basic" => (~watch_mode /\ js_filename = NoJs)
    /\ RouterStart

\* No session is serving.
RouterIdle ==
    /\ files = FixedFiles
    /\ variant = "plain"
    /\ js_filename = NoJs
    /\ watch_mode = FALSE
    /\ RouterStart

RouterNext ==
    \/ \E r \in Requests : HandleRequest(r.url, r.a, r.gone)
    \/ \E r \in Requests : HandleWebappRequest(r.url, r.a, r.gone)
    \/ \E r \in Requests : ServeRequest(r.url, r.a, r.gone)
    \/ \E r \in {q \in Requests : q.url = ReloadCheckUrl} : PollLoad(r.a, r.gone)
    \/ PollStore
    \/ Rebuild

\* ------------------------------------------------------- specifications

Init == GuardInit /\ RouterIdle

RouterSpecInit == RouterInit /\ GuardIdle

\* Start-ups of run_server.
Spec == Init /\ [][Next]_vars

\* Requests served by one session.
RouterSpec == RouterSpecInit /\ [][RouterNext]_vars

\* ------------------------------------------------- claims on the start-up

\* C1: when run_server starts while the PID record names a live process, that
\* process has ceased to exist before the new instance binds its listener and
\* starts accepting requests. (A server's pid is never given to another server,
\* so a predecessor that is still a server process now was one at the bind.)
C1_PredecessorGoneBeforeListening ==
    \A p \in Procs :
        (pc[p] = "listening" /\ liveAtStart[p] # NoPid)
            => proc[liveAtStart[p]] \notin {"server", "server_dying"}

\* C2: over any interleaving of run_server start-ups, at most one server
\* instance is alive and listening (instances with a SIGKILL pending not counted).
C2_AtMostOneListening ==
    Cardinality({p \in Procs : pc[p] = "listening" /\ proc[p] = "server"}) <= 1

\* C3: if the forced-termination signal sent to a live recorded prior instance
\* fails, start-up aborts: the invocation writes no PID record, binds no
\* listener and never enters the request loop.
C3_KillFailureAborts ==
    \A p \in Procs :
        killFailed[p] = "not_permitted" =>
            /\ ~wrotePid[p]
            /\ pc[p] \notin {"write_pid", "bind", "listening"}
            /\ \A q \in Ports : portOwner[q] # p

\* C4: when run_server starts while the PID record exists but names a process
\* that is not alive, the guard sends no signal, start-up proceeds and the stale
\* record is deleted by the guard (whether or not the rest of start-up succeeds).
C4_StaleRecordDeleted ==
    [][\A p \in Procs :
          (/\ pc[p] = "check" /\ proc[p] = "server"
           /\ pidFile # NoPid /\ proc[pidFile] = "free"
           /\ pc'[p] # "check" /\ proc'[p] = "server")
              => (pc'[p] = "probe" /\ proc' = proc /\ pidFile' = NoPid)]_vars

\* C5: if the requested port is bound by another listener when run_server
\* probes it, start-up fails with the port-in-use error, no listener is created
\* and no PID record is written by the failing start-up.
C5_BusyPortAborts ==
    \A p \in Procs :
        probeBusy[p] =>
            /\ pc[p] = "failed" /\ result[p] = "port_in_use"
            /\ ~wrotePid[p]
            /\ \A q \in Ports : portOwner[q] # p

\* C5 witness: a start-up has probed a busy port and has returned.
C5_Witness == \E p \in Procs : probeBusy[p] /\ pc[p] = "failed"


\* -------------------------------------------------- claims on the requests

NoDup(q) == \A i, j \in 1..Len(q) : q[i] = q[j] => i = j
IsPrefix(a, b) == Len(a) <= Len(b) /\ SubSeq(b, 1, Len(a)) = a
Count(q, x) == Cardinality({i \in 1..Len(q) : q[i] = x})

\* C6: with watch mode enabled, after any sequence of requests the list of
\* observed clients holds no address twice; a client that has just requested
\* `/` (for the first time or again) appears exactly once; entries keep their
\* first-seen order and are never removed (every step extends the list at its end).
C6_ObservedClientsOrderedSet ==
    [][/\ NoDup(clients_to_reload')
       /\ IsPrefix(clients_to_reload, clients_to_reload')
       /\ (lastReq'.url = Root /\ watch_mode)
             => Count(clients_to_reload', lastReq'.client) = 1]_vars

\* C6 witness: two clients were recorded and the first of them has requested
\* `/` again after the second was recorded.
C6_Witness ==
    /\ watch_mode
    /\ Len(clients_to_reload) = 2
    /\ lastReq.url = Root
    /\ lastReq.client = clients_to_reload[1]

\* C7: every request to `/reload-check` while watch mode is disabled is answered
\* with the body `not-watching`, whatever the flag and the glue script.
C7_NotWatchingOnReloadCheck ==
    (hpc = "idle" /\ lastReq.url = ReloadCheckUrl /\ ~watch_mode)
        => (lastResp.kind = "text" /\ lastResp.text = "not-watching")

\* A response that tells the browser to reload: the X-Reload-Needed header, or
\* a plain-text flag state saying so.
ReloadNeeded(resp) == resp.reload \/ (resp.kind = "text" /\ resp.text = "reload")

\* C8: with watch mode enabled, a reload poll handled when the pending flag is
\* true answers with the reload-needed signal and leaves the flag false; a
\* poll that follows a poll with no rebuild in between answers with no signal.
C8_FirstPollSignalsSecondDoesNot ==
    (hpc = "idle" /\ watch_mode /\ OwnPoll) =>
        /\ flagAtStart => (ReloadNeeded(lastResp) /\ (~rebuilt => ~reload_flag))
        /\ pollBefore => ~ReloadNeeded(lastResp)

\* The outcomes of a reload poll.
IsPollOutcome(resp) ==
    \/ resp.kind = "empty"
    \/ resp.kind = "text" /\ resp.text \in {"no-reload", "not-watching"}

\* C9: `/reload` and `/reload-check` resolve to the reload-poll outcome in every
\* serving variant, never to an output-directory file, the entry page or 404.
C9_ReloadPathsArePolls ==
    (hpc = "idle" /\ IsPoll(lastReq)) => IsPollOutcome(lastResp)

\* The url has a `..` segment.
HasDotDot(url) ==
    \E i \in 1..Len(Split(url, Slash)) : Split(url, Slash)[i] = <<"..">>

\* The handler serving the session resolves the url under the output directory.
ReachesOutputDir(url) ==
    /\ variant # "basic"
    /\ url # Root
    /\ ~StartsWith(url, AssetsPrefix)
    /\ variant = "plain" =>
          (url # <<Slash>> \o wasm_filename /\ js_filename = NoJs /\ url # ReloadUrl)
    /\ variant = "webapp" => url # ReloadCheckUrl

\* C10: a request path that reaches output-directory resolution and has a `..`
\* segment is never answered with a file located outside the output directory.
C10_NoTraversalOutsideOutputDir ==
    (hpc = "idle" /\ HasDotDot(lastReq.url) /\ ReachesOutputDir(lastReq.url))
        => ~(lastResp.kind = "file" /\ ~StartsWith(lastResp.file, OutDir))

\* ----------------------------------------- claims on the resolution rules

\* The regular files of the output directory whose name ends in `_bg.wasm`.
BgFiles == {f \in files : Parent(f) = OutDir /\ EndsWith(Last(f), BgWasmSuffix)}

\* The url, joined to the output directory, is a regular file.
ExactMatch(url) == IsFile(Join(output_dir, TrimStartMatches(url, Slash)))

\* C11: for a request path ending in `_bg.wasm` with no exact file match under
\* the output directory: if the directory holds exactly one regular file whose
\* name ends in `_bg.wasm`, that file is served with content type
\* application/wasm; if it holds none, the response status is 404.
C11_GeneratedSuffixFallback ==
    (hpc = "idle" /\ EndsWith(lastReq.url, BgWasmSuffix) /\ ~ExactMatch(lastReq.url))
        => /\ Cardinality(BgFiles) = 1 =>
                 /\ lastResp.status = 200 /\ lastResp.kind = "file"
                 /\ lastResp.file \in BgFiles
                 /\ lastResp.ctype = "application/wasm"
           /\ BgFiles = {} => lastResp.status = 404

\* The url is taken by none of the rules before the output directory: `/`, the
\* primary artifact, the reload polls, `/assets/`.
NoEarlierRule(url) ==
    /\ url # Root
    /\ url # <<Slash>> \o wasm_filename
    /\ url \notin {ReloadUrl, ReloadCheckUrl}
    /\ ~StartsWith(url, AssetsPrefix)

\* The url names no file of the output directory: not by its path, not by the
\* generated suffix, not by its last segment.
NoOutputFile(url) ==
    /\ ~(ExactMatch(url)
         /\ StartsWith(Resolve(Join(output_dir, TrimStartMatches(url, Slash))), OutDir))
    /\ EndsWith(url, BgWasmSuffix) => BgFiles = {}
    /\ \A f \in files : Parent(f) = OutDir => Last(f) # Last(Split(url, Slash))

\* C12: with no glue script and watch mode off, a request for `/<primary
\* artifact file name>` (the artifact being there) is answered 200 with content
\* type application/wasm and the artifact file's bytes, and a request for a path
\* that matches no rule and no file of the output directory is answered 404 with
\* a body containing `404`.
C12_ArtifactServedElse404 ==
    (hpc = "idle" /\ variant = "plain" /\ js_filename = NoJs /\ ~watch_mode) =>
        /\ (lastReq.url = <<Slash>> \o wasm_filename /\ IsFile(wasm_path)) =>
              /\ lastResp.status = 200 /\ lastResp.ctype = "application/wasm"
              /\ lastResp.kind = "file" /\ lastResp.file = Resolve(wasm_path)
        /\ (lastReq.url # <<>> /\ NoEarlierRule(lastReq.url) /\ NoOutputFile(lastReq.url)) =>
              /\ lastResp.status = 404
              /\ lastResp.kind = "text" /\ lastResp.text = "404 Not Found"

\* C13: for a path that no earlier rule resolves and that names no regular file
\* of the output directory, handle_webapp_request re-serves the entry page as
\* HTML with status 200, and handle_request answers 404. (With a glue script
\* configured, its file name is an earlier rule.)
C13_SpaFallbackOr404 ==
    (/\ hpc = "idle" /\ lastReq.url # <<>>
     /\ NoEarlierRule(lastReq.url) /\ NoOutputFile(lastReq.url)
     /\ js_filename # NoJs => lastReq.url # <<Slash>> \o js_filename)
        => /\ variant = "webapp" => lastResp = EntryPage
           /\ variant = "plain" => lastResp.status = 404

\* The request is for `/assets/<name>` and the handler reads the asset: with a
\* glue script configured handle_request ends before its assets rule.
AssetRead ==
    /\ StartsWith(lastReq.url, AssetsPrefix)
    /\ variant = "plain" => js_filename = NoJs

\* ./assets/<name> cannot be read: the assets root is missing or is not a
\* directory, or the file is missing.
AssetUnreadable(url) ==
    Walk(AssetsDir, Split(StripPrefix(url, AssetsPrefix), Slash)) \notin files

\* C14: every failure to read a requested `/assets/<name>` file (assets root
\* missing, assets path not a directory, file missing) is answered with status
\* 404, never 500 and never a 200 response.
C14_AssetReadFailureIs404 ==
    (hpc = "idle" /\ AssetRead /\ AssetUnreadable(lastReq.url))
        => lastResp.status = 404

\* C14 witness: an asset was requested from the handle_request of server.rs
\* while ./assets was not a directory, and the request was answered.
C14_Witness ==
    /\ hpc = "idle" /\ variant = "basic" /\ AssetRead
    /\ files = AssetsIsFile
    /\ lastResp.status = 404

\* ------------------------------------- claims on the start-up, continued

\* The step of start-up a run_server invocation is about to perform, in the
\* order guard, probe, artifact check, bind, publication (0: none).
StepNo(at) ==
    CASE at \in {"check", "stop", "stop_read", "kill", "rm_pid"} -> 1
      [] at = "probe" -> 2
      [] at = "artifact" -> 3
      [] at = "bind" -> 4
      [] at = "write_pid" -> 5
      [] OTHER -> 0

\* C15: start-up performs its steps in the order process guard, port probe,
\* artifact check, listener bind, PID-record publication; a start-up that fails
\* at a step performs no later step; the PID record is written only by a
\* start-up whose listener bind has succeeded.
C15_StartupOrder ==
    [][\A p \in Procs :
          /\ (StepNo(pc[p]) > 0 /\ StepNo(pc'[p]) > 0)
                => StepNo(pc[p]) <= StepNo(pc'[p])
          /\ pc[p] = "failed" => (pc'[p] = "failed" /\ wrotePid'[p] = wrotePid[p])
          /\ (~wrotePid[p] /\ wrotePid'[p]) => portOwner[port[p]] = p
          /\ pc'[p] = "failed" => ~wrotePid'[p]]_vars

\* ------------------------------------------ claims on the reload state

\* C16: the reload poll consumes the pending flag atomically: a rebuild
\* notification that no poll begun after it has reported is still pending (the
\* flag is true), also when it arrived between the poll handler's read and its
\* reset. `rebuilt` holds the notifications since the last request was accepted.
C16_NoNotificationErased ==
    (hpc = "idle" /\ rebuilt) => reload_flag

\* C17: for every request path and every configuration the handler sends
\* exactly one response; with a glue script configured only the path equal to
\* the glue script's file name is resolved as the glue script, and every other
\* path is resolved by the reload, assets and output-directory rules as it is
\* without a glue script.
C17_ExactlyOneResponse ==
    (hpc = "idle" /\ lastReq.url # <<>>) =>
        /\ lastResp # NoResponse
        /\ (variant = "plain" /\ js_filename # NoJs) =>
              IF lastReq.url = <<Slash>> \o js_filename
                 THEN lastResp.kind = "file" => lastResp.file = Append(OutDir, js_filename)
                 ELSE lastResp \in
                        {o.resp : o \in handle_request(lastReq.url, lastReq.client, NoJs,
                                                       watch_mode, clients_to_reload)}

\* C18: whenever a server instance is alive and listening (no SIGKILL pending
\* for it), the PID record exists and holds that instance's process id, after
\* any sequence of start-ups, also ones where terminating the predecessor failed.
C18_ListenerIsRecorded ==
    \A p \in Procs : (pc[p] = "listening" /\ proc[p] = "server") => pidFile = p

\* C19: reload delivery is at-most-once and level-triggered: the number of polls
\* answered reload-needed never exceeds the number of rebuild notifications;
\* when several notifications came with no poll between them, the poll that is
\* accepted next answers reload-needed, and a poll that follows a poll with no
\* notification between the two does not (the notifications together produce
\* exactly one reload-needed answer).
C19_AtMostOnceLevelTriggered ==
    [][/\ signalled' <= notified'
       /\ (burst >= 2 /\ burst' = 0)
             => (hpc' = "poll_store" \/ ReloadNeeded(lastResp'))
       /\ (hpc' = "idle" /\ PollPath(lastReq'.url) /\ pollBefore')
             => ~ReloadNeeded(lastResp')]_vars

ServingState == <<files, variant, js_filename, watch_mode, reload_flag>>

\* The request handled by this step ends in 404, in a 500 file-read failure or
\* in a failed response send. Every step that is not a rebuild notification
\* belongs to the handling of a request.
FailingRequest ==
    notified' = notified /\ (lastResp'.status \in {404, 500} \/ sendErr')

\* C21, as stated: no request outcome stops the server: after a request that
\* ends in 404, in a 500 file-read failure or in a failed response send, the
\* loop is again waiting for the next request, and the next request is handled
\* as if the failing one had not occurred (the failing request has left
\* unchanged everything the answers are computed from).
C21_FailuresLeaveLoopAsItWas ==
    [][FailingRequest => (hpc' = "idle" /\ ServingState' = ServingState)]_vars

\* C21, amended: as above, except that a reload poll whose response could not
\* be sent has consumed the pending flag (the flag is reset before the send).
C21_FailuresLeaveLoopWaiting ==
    [][FailingRequest =>
          /\ hpc' = "idle"
          /\ <<files, variant, js_filename, watch_mode>>'
                = <<files, variant, js_filename, watch_mode>>
          /\ \/ reload_flag' = reload_flag
             \/ sendErr' /\ PollPath(lastReq'.url) /\ ~reload_flag']_vars

\* C21 witness: a file read failed with 500, the response could not be sent
\* either, and the loop is waiting for the next request.
C21_Witness ==
    /\ hpc = "idle"
    /\ lastResp.status = 500
    /\ sendErr

\* ------------------------------------------ claims on the process guard

\* C22: whenever stop_existing_server returns success, no PID record remains on
\* disk (it was absent, was stale and deleted, or was deleted after a successful
\* kill); on the way to an error returned because the kill command failed, no
\* step of stop_existing_server changes the record.
C22_StopLeavesNoRecordOrKeepsIt ==
    [][\A p \in Procs :
          /\ (pc[p] = "stop" /\ pc'[p] = "probe") => pidFile' = NoPid
          /\ (pc[p] = "rm_pid" /\ pc'[p] = "probe") => pidFile' = NoPid
          /\ (pc[p] = "stop" /\ pc'[p] = "stop_read") => pidFile' = pidFile
          /\ (pc[p] = "stop_read" /\ pc'[p] = "kill") => pidFile' = pidFile
          /\ (pc[p] = "kill" /\ pc'[p] = "probe") =>
                (killFailed'[p] # "no" /\ pidFile' = pidFile)]_vars

\* C22 witness: a stop_existing_server has read the record, killed the recorded
\* process, removed the record and returned success; no record is on disk.
C22_Witness ==
    \E p \in Procs :
        /\ pc[p] = "probe" /\ gotPid[p] # NoPid /\ killFailed[p] = "no"
        /\ pidFile = NoPid

\* ----------------------------------------------- claims on the assets

\* The answer to `/assets/<name>` computed from the path and the files under
\* ./assets alone: the file of that name with the content type of the path's
\* ending, or 404.
AssetsOnlyAnswer(url) ==
    LET asset == AssetsDir \o Split(StripPrefix(url, AssetsPrefix), Slash)
        mime == CASE EndsWith(url, <<".png">>) -> "image/png"
                  [] EndsWith(url, <<".css">>) -> "text/css"
                  [] EndsWith(url, <<".js">>) -> "application/javascript"
                  [] OTHER -> "application/octet-stream"
    IN  IF asset \in {f \in files : StartsWith(f, AssetsDir)}
           THEN [status |-> 200, ctype |-> mime, file |-> asset]
           ELSE [status |-> 404, ctype |-> "text/plain", file |-> NoPath]

\* C23: the response to a request for `/assets/<name>` depends only on the path
\* and the contents of ./assets: it is the answer computed from these alone,
\* whatever the output directory, the primary artifact, the glue script, the
\* watch mode and the reload state are, and it is never a file of the output
\* directory.
C23_AssetsAnswerFromAssetsOnly ==
    (hpc = "idle" /\ StartsWith(lastReq.url, AssetsPrefix)) =>
        /\ lastResp.status = AssetsOnlyAnswer(lastReq.url).status
        /\ lastResp.ctype = AssetsOnlyAnswer(lastReq.url).ctype
        /\ lastResp.file = AssetsOnlyAnswer(lastReq.url).file
        /\ ~StartsWith(lastResp.file, OutDir)

\* C24: the process guard sends the forced-termination signal only to a server
\* instance that published the PID record: in no reachable state, also after
\* the recorded server has exited and its process id has been given to an
\* unrelated process, has stop_existing_server killed a process that is not a
\* server instance.
C24_OnlyServersAreKilled ==
    \A t \in Procs : proc[t] # "other_dying"

====
